---- MODULE Spec2Model ----
(***************************************************************************)
(* Model of VLoop/analyze_debug.py: analyze_crash reads a debug snapshot   *)
(* of the VLoop looper and prints a crash report.  The snapshot is a JSON  *)
(* document; dicts are functions with a string domain, lists are           *)
(* sequences.  The report is the sequence of printed lines, each tagged    *)
(* with the section of the routine that printed it.                        *)
(***************************************************************************)
EXTENDS Integers, Sequences, FiniteSets, TLC

VARIABLES data, vloop, debug, buckets, crash_pulse, out, pc

vars == <<data, vloop, debug, buckets, crash_pulse, out, pc>>

(***************************************************************************)
(* Bounds of the model.                                                    *)
(***************************************************************************)
MaxSlots == 2
MaxBuckets == 2
MaxEvents == 2
MaxStatus == 255

(***************************************************************************)
(* Program constants.                                                      *)
(***************************************************************************)
BannerWidth == 70
Window == 3

(***************************************************************************)
(* Python dict access: d.get(k, default), k in d.                          *)
(***************************************************************************)
Has(d, k) == k \in DOMAIN d

Get(d, k, default) == IF k \in DOMAIN d THEN d[k] ELSE default

With(d, k, v) == [x \in DOMAIN d \cup {k} |-> IF x = k THEN v ELSE d[x]]

Without(d, ks) == [x \in DOMAIN d \ ks |-> d[x]]

EmptyDict == <<>>

(***************************************************************************)
(* String formatting, as Python's str(), format(n, ','), hex(), and        *)
(* format(x, '.Nf') produce it.                                            *)
(***************************************************************************)
Digit(d) == <<"0", "1", "2", "3", "4", "5", "6", "7", "8", "9",
              "a", "b", "c", "d", "e", "f">>[d + 1]

RECURSIVE NatStr(_)
NatStr(n) == IF n < 10 THEN Digit(n) ELSE NatStr(n \div 10) \o Digit(n % 10)

IntStr(n) == IF n < 0 THEN "-" \o NatStr(-n) ELSE NatStr(n)

BoolStr(b) == IF b THEN "True" ELSE "False"

RECURSIVE Pad(_, _)
Pad(n, width) ==
    IF width <= 1 THEN Digit(n % 10)
    ELSE Pad(n \div 10, width - 1) \o Digit(n % 10)

RECURSIVE NatGrouped(_)
NatGrouped(n) ==
    IF n < 1000 THEN NatStr(n)
    ELSE NatGrouped(n \div 1000) \o "," \o Pad(n % 1000, 3)

Grouped(n) == IF n < 0 THEN "-" \o NatGrouped(-n) ELSE NatGrouped(n)

RECURSIVE NatHex(_)
NatHex(n) == IF n < 16 THEN Digit(n) ELSE NatHex(n \div 16) \o Digit(n % 16)

Hex(n) == IF n < 0 THEN "-0x" \o NatHex(-n) ELSE "0x" \o NatHex(n)

RECURSIVE Rep(_, _)
Rep(s, n) == IF n = 0 THEN "" ELSE s \o Rep(s, n - 1)

RECURSIVE Pow10(_)
Pow10(d) == IF d = 0 THEN 1 ELSE 10 * Pow10(d - 1)

(***************************************************************************)
(* a / b is Python's true division of two ints: the IEEE double nearest    *)
(* to the quotient (ties to even).  FloatDir is the sign of                *)
(* double(a / b) - a / b, found by long division of the 53-bit significand *)
(* (a > 0, b > 0).                                                         *)
(***************************************************************************)
RECURSIVE ScaleNum(_, _)
ScaleNum(a, b) == IF a >= b THEN a ELSE ScaleNum(2 * a, b)

RECURSIVE ScaleDen(_, _)
ScaleDen(a, b) == IF a < 2 * b THEN b ELSE ScaleDen(a, 2 * b)

RECURSIVE SigRound(_, _, _, _)
SigRound(r, b, odd, bits) ==
    IF bits = 0
    THEN IF r = 0 THEN 0
         ELSE IF 2 * r > b THEN 1
         ELSE IF 2 * r < b THEN -1
         ELSE IF odd THEN 1 ELSE -1
    ELSE SigRound((2 * r) % b, b, 2 * r >= b, bits - 1)

FloatDir(a, b) ==
    IF a = 0 THEN 0
    ELSE LET n == ScaleNum(a, b)
             m == ScaleDen(n, b)
         IN  SigRound(n - m, m, TRUE, 52)

(***************************************************************************)
(* format(a / b, '.<d>f'): the double's exact value correctly rounded to   *)
(* d decimals, ties to even.  The result is the number of 10^-d units.     *)
(***************************************************************************)
FixedUnitsTrunc(a, b, d) == (a * Pow10(d)) \div b

FixedUnits(a, b, d) ==
    LET n == a * Pow10(d)
        q == n \div b
        r == n % b
    IN  IF 2 * r < b THEN q
        ELSE IF 2 * r > b THEN q + 1
        ELSE LET dir == FloatDir(a, b)
             IN  IF dir > 0 THEN q + 1
                 ELSE IF dir < 0 THEN q
                 ELSE IF q % 2 = 0 THEN q ELSE q + 1

UnitsStr(u, d) == NatStr(u \div Pow10(d)) \o "." \o Pad(u % Pow10(d), d)

Fixed(a, b, d) == UnitsStr(FixedUnits(a, b, d), d)

(***************************************************************************)
(* Python's a & b for b >= 0 (negative a in two's complement).             *)
(***************************************************************************)
RECURSIVE BitAnd(_, _)
BitAnd(a, b) ==
    IF a = 0 \/ b = 0 THEN 0
    ELSE (a % 2) * (b % 2) + 2 * BitAnd(a \div 2, b \div 2)

(***************************************************************************)
(* The decoding of the last MIDI message sent (the text after the two      *)
(* leading blanks).                                                        *)
(***************************************************************************)
DescribeLastZeroBased(status, data1, data2) ==
    LET msg_type == BitAnd(status, 240)
        channel == BitAnd(status, 15)
    IN  IF msg_type = 144
        THEN "Note On ch" \o IntStr(channel) \o ": note=" \o IntStr(data1)
                 \o " vel=" \o IntStr(data2)
        ELSE IF msg_type = 128
        THEN "Note Off ch" \o IntStr(channel) \o ": note=" \o IntStr(data1)
                 \o " vel=" \o IntStr(data2)
        ELSE IF msg_type = 176
        THEN "CC ch" \o IntStr(channel) \o ": cc=" \o IntStr(data1)
                 \o " val=" \o IntStr(data2)
        ELSE "Status=" \o Hex(status) \o " data1=" \o IntStr(data1)
                 \o " data2=" \o IntStr(data2)

DescribeLast(status, data1, data2) ==
    LET msg_type == BitAnd(status, 240)
        channel == BitAnd(status, 15) + 1
    IN  IF msg_type = 144
        THEN "Note On ch" \o IntStr(channel) \o ": note=" \o IntStr(data1)
                 \o " vel=" \o IntStr(data2)
        ELSE IF msg_type = 128
        THEN "Note Off ch" \o IntStr(channel) \o ": note=" \o IntStr(data1)
                 \o " vel=" \o IntStr(data2)
        ELSE IF msg_type = 176
        THEN "CC ch" \o IntStr(channel) \o ": cc=" \o IntStr(data1)
                 \o " val=" \o IntStr(data2)
        ELSE "Status=" \o Hex(status) \o " data1=" \o IntStr(data1)
                 \o " data2=" \o IntStr(data2)

(***************************************************************************)
(* The decoding of one event of the crash bucket.                          *)
(***************************************************************************)
DescribeEvent(status, d1, d2) ==
    LET msg_type == BitAnd(status, 240)
        ch == BitAnd(status, 15) + 1
    IN  IF msg_type = 144
        THEN "Note On ch" \o IntStr(ch) \o ": note=" \o IntStr(d1)
                 \o " vel=" \o IntStr(d2)
        ELSE IF msg_type = 128
        THEN "Note Off ch" \o IntStr(ch) \o ": note=" \o IntStr(d1)
                 \o " vel=" \o IntStr(d2)
        ELSE IF msg_type = 176
        THEN "CC ch" \o IntStr(ch) \o ": cc=" \o IntStr(d1)
                 \o " val=" \o IntStr(d2)
        ELSE "Status=" \o Hex(status) \o " data1=" \o IntStr(d1)
                 \o " data2=" \o IntStr(d2)

(***************************************************************************)
(* print(): one line of the report, tagged with the section printing it.   *)
(* A statement whose dict look-up fails raises KeyError: the lines before  *)
(* it are printed, it and the rest are not.                                *)
(***************************************************************************)
Stmt(sec, ok, text) == [sec |-> sec, ok |-> ok, text |-> text]

Line(sec, text) == [sec |-> sec, text |-> text]

FirstBad(stmts) ==
    IF \A i \in 1..Len(stmts) : stmts[i].ok THEN Len(stmts) + 1
    ELSE CHOOSE i \in 1..Len(stmts) :
             /\ ~stmts[i].ok
             /\ \A j \in 1..(i - 1) : stmts[j].ok

Printed(stmts) ==
    [i \in 1..(FirstBad(stmts) - 1) |-> Line(stmts[i].sec, stmts[i].text)]

Raises(stmts) == FirstBad(stmts) <= Len(stmts)

(***************************************************************************)
(* The order of the blocks of analyze_crash: the block that follows the    *)
(* block at p.                                                             *)
(***************************************************************************)
AfterSwapped(p) ==
    CASE p = "check" -> "last_midi"
      [] p = "last_midi" -> "counters"
      [] p = "counters" -> "bucket_analysis"
      [] p = "bucket_analysis" -> "crash_point"
      [] p = "crash_point" -> "surrounding"
      [] p = "surrounding" -> "stats"
      [] p = "stats" -> "returned"

After(p) ==
    CASE p = "check" -> "counters"
      [] p = "counters" -> "last_midi"
      [] p = "last_midi" -> "bucket_analysis"
      [] p = "bucket_analysis" -> "crash_point"
      [] p = "crash_point" -> "surrounding"
      [] p = "surrounding" -> "stats"
      [] p = "stats" -> "returned"

Run(stmts) ==
    /\ out' = out \o Printed(stmts)
    /\ pc' = IF Raises(stmts) THEN "raised" ELSE After(pc)

SecBanner == 0
SecPlayback == 1
SecCounters == 2
SecLastMidi == 3
SecBuckets == 4
SecCrash == 5
SecSurround == 6
SecStats == 7

None == <<>>

Some(x) == <<x>>

Truthy(d) == DOMAIN d # {}

(***************************************************************************)
(* Lines 11-16: the first slot whose guid is "VLOP" (slot.get('guid') is   *)
(* None for a slot without a guid).                                        *)
(***************************************************************************)
IsVloopAny(slot) == Has(slot, "guid")

IsVloop(slot) == Has(slot, "guid") /\ slot["guid"] = "VLOP"

FirstVloop(slots) ==
    IF \E i \in 1..Len(slots) : IsVloop(slots[i])
    THEN Some(slots[CHOOSE i \in 1..Len(slots) :
                  /\ IsVloop(slots[i])
                  /\ \A j \in 1..(i - 1) : ~IsVloop(slots[j])])
    ELSE None

FindSlot ==
    /\ pc = "find"
    /\ IF Has(data, "slots")
       THEN /\ vloop' = FirstVloop(data["slots"])
            /\ pc' = "check"
       ELSE /\ vloop' = vloop
            /\ pc' = "raised"
    /\ UNCHANGED <<data, debug, buckets, crash_pulse, out>>

(***************************************************************************)
(* Lines 18-20: "if not vloop" holds for None and for an empty dict.       *)
(***************************************************************************)
Found == vloop # None /\ Truthy(vloop[1])

NotFound ==
    /\ pc = "check"
    /\ ~Found
    /\ out' = Append(out, Line(SecBanner, "ERROR: VLoop slot not found"))
    /\ pc' = "returned"
    /\ UNCHANGED <<data, vloop, debug, buckets, crash_pulse>>

(***************************************************************************)
(* Lines 22-31: the banner and the playback state.                         *)
(***************************************************************************)
PlaybackStmts(v) ==
    << Stmt(SecBanner, TRUE, Rep("=", BannerWidth)),
       Stmt(SecBanner, TRUE, "VLoop CRASH ANALYSIS"),
       Stmt(SecBanner, TRUE, Rep("=", BannerWidth)),
       Stmt(SecPlayback, TRUE, ""),
       Stmt(SecPlayback, TRUE, "=== PLAYBACK STATE ==="),
       Stmt(SecPlayback, Has(v, "loopLength"),
            IF Has(v, "loopLength")
            THEN "Loop Length:    " \o IntStr(v["loopLength"]) \o " pulses"
            ELSE ""),
       Stmt(SecPlayback, Has(v, "currentPulse"),
            IF Has(v, "currentPulse")
            THEN "Current Pulse:  " \o IntStr(v["currentPulse"])
                     \o " <-- CRASHED HERE"
            ELSE ""),
       Stmt(SecPlayback, Has(v, "isRecording"),
            IF Has(v, "isRecording")
            THEN "Is Recording:   " \o BoolStr(v["isRecording"])
            ELSE ""),
       Stmt(SecPlayback, Has(v, "isPlaying"),
            IF Has(v, "isPlaying")
            THEN "Is Playing:     " \o BoolStr(v["isPlaying"])
            ELSE "") >>

PlaybackState ==
    /\ pc = "check"
    /\ Found
    /\ Run(PlaybackStmts(vloop[1]))
    /\ UNCHANGED <<data, vloop, debug, buckets, crash_pulse>>

(***************************************************************************)
(* Lines 33-39: the debug counters.                                        *)
(***************************************************************************)
CounterDefaultOne(dbg, k) == Get(dbg, k, 1)

Counter(dbg, k) == Get(dbg, k, 0)

CounterStmts(dbg) ==
    << Stmt(SecCounters, TRUE, ""),
       Stmt(SecCounters, TRUE, "=== DEBUG COUNTERS ==="),
       Stmt(SecCounters, TRUE,
            "Total step() calls:     " \o Grouped(Counter(dbg, "stepCallCount"))),
       Stmt(SecCounters, TRUE,
            "Total clock edges:      " \o Grouped(Counter(dbg, "totalClockEdges"))),
       Stmt(SecCounters, TRUE,
            "Total MIDI received:    " \o Grouped(Counter(dbg, "totalMidiReceived"))),
       Stmt(SecCounters, TRUE,
            "Total MIDI sent:        " \o Grouped(Counter(dbg, "totalMidiSent"))) >>

DebugCounters ==
    /\ pc = "counters"
    /\ debug' = Get(vloop[1], "debug", EmptyDict)
    /\ Run(CounterStmts(debug'))
    /\ UNCHANGED <<data, vloop, buckets, crash_pulse>>

(***************************************************************************)
(* Lines 41-56: the last MIDI message sent.                                *)
(***************************************************************************)
LastMidiStmts(dbg) ==
    LET last_midi == Get(dbg, "lastMidiSent", EmptyDict)
        status == Get(last_midi, "status", 0)
        data1 == Get(last_midi, "data1", 0)
        data2 == Get(last_midi, "data2", 0)
    IN  << Stmt(SecLastMidi, TRUE, ""),
           Stmt(SecLastMidi, TRUE,
                "Last MIDI sent at pulse "
                    \o IntStr(Get(dbg, "lastPulseWithMidi", 0)) \o ":"),
           Stmt(SecLastMidi, TRUE,
                "  " \o DescribeLast(status, data1, data2)) >>

LastMidi ==
    /\ pc = "last_midi"
    /\ Run(LastMidiStmts(debug))
    /\ UNCHANGED <<data, vloop, debug, buckets, crash_pulse>>

(***************************************************************************)
(* Lines 58-69: the bucket statistics.  Lines 63 and 66 read 'pulse' and   *)
(* 'events' of every bucket.                                               *)
(***************************************************************************)
RECURSIVE SumEvents(_)
SumEvents(bs) ==
    IF bs = <<>> THEN 0 ELSE Len(Head(bs)["events"]) + SumEvents(Tail(bs))

RECURSIVE MaxOf(_)
MaxOf(bs) ==
    IF Len(bs) = 1 THEN Len(bs[1]["events"])
    ELSE LET m == MaxOf(Tail(bs))
             h == Len(bs[1]["events"])
         IN  IF h >= m THEN h ELSE m

MaxEventsLast(bs) == IF bs # <<>> THEN Len(bs[Len(bs)]["events"]) ELSE 0

MaxEventsOf(bs) == IF bs # <<>> THEN MaxOf(bs) ELSE 0

CountMinusOne(bs) == IF bs = <<>> THEN 0 ELSE Len(bs) - 1

CountOf(bs) == Len(bs)

TotalEvents(bs) == SumEvents(bs)

BucketStmts(v, bs) ==
    LET wellFormed == /\ \A i \in 1..Len(bs) : Has(bs[i], "pulse")
                      /\ \A i \in 1..Len(bs) : Has(bs[i], "events")
    IN  << Stmt(SecBuckets, TRUE, ""),
           Stmt(SecBuckets, TRUE, "=== BUCKET ANALYSIS ==="),
           Stmt(SecBuckets, TRUE,
                "Non-empty buckets: " \o IntStr(CountOf(bs)) \o "/"
                    \o IntStr(v["loopLength"])),
           Stmt(SecBuckets, wellFormed,
                IF wellFormed
                THEN "Total recorded events: " \o IntStr(TotalEvents(bs))
                ELSE ""),
           Stmt(SecBuckets, wellFormed,
                IF wellFormed
                THEN "Max events per bucket: " \o IntStr(MaxEventsOf(bs))
                ELSE "") >>

BucketAnalysis ==
    /\ pc = "bucket_analysis"
    /\ buckets' = Get(vloop[1], "buckets", <<>>)
    /\ Run(BucketStmts(vloop[1], buckets'))
    /\ UNCHANGED <<data, vloop, debug, crash_pulse>>

(***************************************************************************)
(* Lines 71-103: the bucket at the crash pulse.  CrashIndex is the index   *)
(* of crash_bucket in the bucket list, 0 when it stays None.               *)
(***************************************************************************)
CrashIndexLast(bs, cp) ==
    IF \E i \in 1..Len(bs) : bs[i]["pulse"] = cp
    THEN CHOOSE i \in 1..Len(bs) :
             /\ bs[i]["pulse"] = cp
             /\ \A j \in (i + 1)..Len(bs) : bs[j]["pulse"] # cp
    ELSE 0

CrashIndex(bs, cp) ==
    IF \E i \in 1..Len(bs) : bs[i]["pulse"] = cp
    THEN CHOOSE i \in 1..Len(bs) :
             /\ bs[i]["pulse"] = cp
             /\ \A j \in 1..(i - 1) : bs[j]["pulse"] # cp
    ELSE 0

EventOk(ev) == Has(ev, "status") /\ Has(ev, "data1") /\ Has(ev, "data2")

Marker(i) == IF i = 0 THEN " <-- WOULD SEND THIS" ELSE ""

EventStmts(events) ==
    [k \in 1..Len(events) |->
        Stmt(SecCrash, EventOk(events[k]),
             IF EventOk(events[k])
             THEN "  Event " \o IntStr(k - 1) \o ": "
                      \o DescribeEvent(events[k]["status"], events[k]["data1"],
                                       events[k]["data2"])
                      \o Marker(k - 1)
             ELSE "")]

CrashStmts(bs, cp) ==
    LET ci == CrashIndex(bs, cp)
    IN  << Stmt(SecCrash, TRUE, ""),
           Stmt(SecCrash, TRUE,
                "=== CRASH POINT (Pulse " \o IntStr(cp) \o ") ===") >>
        \o (IF ci # 0 /\ Truthy(bs[ci])
            THEN << Stmt(SecCrash, TRUE,
                         "Bucket at crash has "
                             \o IntStr(Len(bs[ci]["events"])) \o " events:") >>
                 \o EventStmts(bs[ci]["events"])
            ELSE << Stmt(SecCrash, TRUE,
                         "Bucket at crash pulse is EMPTY (no events)") >>)

CrashPoint ==
    /\ pc = "crash_point"
    /\ crash_pulse' = vloop[1]["currentPulse"]
    /\ Run(CrashStmts(buckets, crash_pulse'))
    /\ UNCHANGED <<data, vloop, debug, buckets>>

(***************************************************************************)
(* Lines 105-112: the buckets within Window pulses of the crash.           *)
(***************************************************************************)
InWindowOpen(p, cp) == cp - Window < p /\ p < cp + Window

InWindow(p, cp) == cp - Window <= p /\ p <= cp + Window

RECURSIVE SurroundStmts(_, _)
SurroundStmts(bs, cp) ==
    IF bs = <<>> THEN <<>>
    ELSE LET b == Head(bs)
             pulse == b["pulse"]
             events == b["events"]
             marker == IF pulse = cp THEN " <-- CRASH" ELSE ""
         IN  (IF InWindow(pulse, cp)
              THEN << Stmt(SecSurround, TRUE,
                           "Pulse " \o IntStr(pulse) \o ": "
                               \o IntStr(Len(events)) \o " events" \o marker) >>
              ELSE <<>>)
             \o SurroundStmts(Tail(bs), cp)

Surrounding ==
    /\ pc = "surrounding"
    /\ Run(<< Stmt(SecSurround, TRUE, ""),
              Stmt(SecSurround, TRUE, "=== SURROUNDING BUCKETS ===") >>
               \o SurroundStmts(buckets, crash_pulse))
    /\ UNCHANGED <<data, vloop, debug, buckets, crash_pulse>>

(***************************************************************************)
(* Lines 114-122: the performance statistics.                              *)
(***************************************************************************)
HasLoops(loopLength) == loopLength > 0

HasEdgesDefaultOne(dbg) == Get(dbg, "totalClockEdges", 1) > 0

HasEdges(dbg) == Get(dbg, "totalClockEdges", 0) > 0

StatsStmts(v, dbg) ==
    << Stmt(SecStats, TRUE, ""),
       Stmt(SecStats, TRUE, "=== PERFORMANCE STATS ===") >>
    \o (IF HasEdges(dbg)
        THEN << Stmt(SecStats, TRUE,
                     "Avg step() calls per clock: "
                         \o Fixed(Get(dbg, "stepCallCount", 0),
                                  Get(dbg, "totalClockEdges", 1), 1)) >>
             \o (IF HasLoops(v["loopLength"])
                 THEN << Stmt(SecStats, TRUE,
                              "Loops played before crash: "
                                  \o Fixed(Get(dbg, "totalClockEdges", 0),
                                           v["loopLength"], 2)) >>
                 ELSE <<>>)
        ELSE <<>>)

Stats ==
    /\ pc = "stats"
    /\ Run(StatsStmts(vloop[1], debug))
    /\ UNCHANGED <<data, vloop, debug, buckets, crash_pulse>>

(***************************************************************************)
(* The snapshots analyze_crash is run on.                                  *)
(***************************************************************************)
SeqsUpTo(S, n) == UNION {[1..k -> S] : k \in 0..n}

OtherSlot == [guid |-> "OTHR"]

NoGuidSlot == [name |-> "mixer"]

BaseSlot(ll, cp, rec, play) ==
    [guid |-> "VLOP", loopLength |-> ll, currentPulse |-> cp,
     isRecording |-> rec, isPlaying |-> play]

Snapshot(slot) == [slots |-> <<OtherSlot, slot>>]

\* Snapshots that differ in their slot list.
SlotPool ==
    {OtherSlot, NoGuidSlot, BaseSlot(16, 4, FALSE, TRUE),
     BaseSlot(8, 5, TRUE, FALSE)}

SlotSnapshots ==
    {[slots |-> ss] : ss \in SeqsUpTo(SlotPool, MaxSlots)}
        \cup {[version |-> 1]}

\* Snapshots that differ in their debug counters.
CounterKeys ==
    {"stepCallCount", "totalClockEdges", "totalMidiReceived", "totalMidiSent",
     "lastPulseWithMidi", "lastMidiSent"}

StepCounts == {0, 5, 7, 1000, 1234567}

ClockEdges == {0, 1, 3, 20}

LoopLengths == {0, 8, 16}

FullDebug(scc, tce, midi) ==
    [stepCallCount |-> scc, totalClockEdges |-> tce,
     totalMidiReceived |-> 4321, totalMidiSent |-> 987,
     lastPulseWithMidi |-> 3, lastMidiSent |-> midi]

MidiEvent(s, d1, d2) == [status |-> s, data1 |-> d1, data2 |-> d2]

CounterSnapshots ==
    {Snapshot(With(BaseSlot(ll, 4, TRUE, TRUE), "debug",
                   Without(FullDebug(scc, tce, MidiEvent(144, 60, 100)), drop))) :
        ll \in LoopLengths, scc \in StepCounts, tce \in ClockEdges,
        drop \in SUBSET CounterKeys}

\* Snapshots that differ in the last MIDI message sent.
DataBytes == {<<60, 100>>, <<40, 0>>, <<7, 127>>, <<0, 0>>}

MidiKeys == {"status", "data1", "data2"}

LastMidiSnapshots ==
    {Snapshot(With(BaseSlot(16, 4, TRUE, TRUE), "debug",
                   FullDebug(1000, 20,
                             Without(MidiEvent(s, d[1], d[2]), drop)))) :
        s \in 0..MaxStatus, d \in DataBytes, drop \in SUBSET MidiKeys}

\* Snapshots that differ in their bucket list.
Offsets == {-4, -3, 0, 3, 4}

RECURSIVE Copies(_, _)
Copies(x, n) == IF n = 0 THEN <<>> ELSE <<x>> \o Copies(x, n - 1)

Bucket(p, es) == [pulse |-> p, events |-> es]

BucketPool(cp) ==
    {Bucket(cp + o, Copies(MidiEvent(144, 60, 100), n)) :
        o \in Offsets, n \in 0..MaxEvents}

Loops == {<<16, 4>>, <<1, 0>>}

BucketSnapshots ==
    UNION {{Snapshot(With(BaseSlot(l[1], l[2], FALSE, FALSE), "buckets", bs)) :
               bs \in SeqsUpTo(BucketPool(l[2]), MaxBuckets)} : l \in Loops}

\* Snapshots that differ in the events of the bucket at the crash pulse.
EventPool ==
    {MidiEvent(144, 60, 100), MidiEvent(129, 40, 0), MidiEvent(178, 7, 127),
     MidiEvent(248, 0, 0), [status |-> 144, data1 |-> 60]}

CrashSnapshots ==
    {Snapshot(With(BaseSlot(16, 4, FALSE, TRUE), "buckets",
                   pre \o <<Bucket(4, es)>>)) :
        pre \in {<<>>, <<Bucket(3, <<>>)>>},
        es \in SeqsUpTo(EventPool, MaxEvents)}
    \cup
    {Snapshot(With(BaseSlot(16, 4, FALSE, TRUE), "buckets",
                   <<Bucket(4, <<MidiEvent(s, d[1], d[2])>>)>>)) :
        s \in 0..MaxStatus, d \in DataBytes}

\* Snapshots that lack a field the report reads without a default.
RequiredKeys == {"loopLength", "currentPulse", "isRecording", "isPlaying"}

MalformedSnapshots ==
    {Snapshot(Without(BaseSlot(16, 4, FALSE, TRUE), {k})) : k \in RequiredKeys}
    \cup
    {Snapshot(With(BaseSlot(16, 4, FALSE, TRUE), "buckets", <<b>>)) :
        b \in {[pulse |-> 4], [events |-> <<>>]}}

\* The snapshots of the documented examples.
ExampleSnapshots ==
    {Snapshot(With(With(BaseSlot(16, 50, FALSE, TRUE), "debug",
                        FullDebug(1000, 20, MidiEvent(144, 60, 100))),
                   "buckets",
                   <<Bucket(48, <<MidiEvent(144, 60, 100)>>),
                     Bucket(49, <<>>),
                     Bucket(50, <<MidiEvent(129, 40, 0), MidiEvent(178, 7, 127)>>),
                     Bucket(52, <<MidiEvent(248, 0, 0)>>)>>)),
     Snapshot(With(BaseSlot(16, 50, FALSE, TRUE), "buckets",
                   <<Bucket(52, <<>>), Bucket(50, <<>>), Bucket(46, <<>>),
                     Bucket(50, <<MidiEvent(144, 60, 100)>>)>>))}

Snapshots ==
    SlotSnapshots \cup CounterSnapshots \cup LastMidiSnapshots
        \cup BucketSnapshots \cup CrashSnapshots \cup MalformedSnapshots
        \cup ExampleSnapshots

Init ==
    /\ data \in Snapshots
    /\ vloop = None
    /\ debug = EmptyDict
    /\ buckets = <<>>
    /\ crash_pulse = 0
    /\ out = <<>>
    /\ pc = "find"

Next ==
    \/ FindSlot
    \/ NotFound
    \/ PlaybackState
    \/ DebugCounters
    \/ LastMidi
    \/ BucketAnalysis
    \/ CrashPoint
    \/ Surrounding
    \/ Stats

Spec == Init /\ [][Next]_vars

(***************************************************************************)
(* What the properties below observe: the text of the report, the part of  *)
(* it that each section printed, how far the routine has come, and the     *)
(* fields of the snapshot read directly, with the documented defaults.     *)
(***************************************************************************)
Texts == [i \in 1..Len(out) |-> out[i].text]

RECURSIVE TextsOf(_, _)
TextsOf(ls, k) ==
    IF ls = <<>> THEN <<>>
    ELSE (IF Head(ls).sec = k THEN <<Head(ls).text>> ELSE <<>>)
             \o TextsOf(Tail(ls), k)

Section(k) == TextsOf(out, k)

PcRank ==
    CASE pc = "find" -> 0
      [] pc = "check" -> 1
      [] pc = "counters" -> 2
      [] pc = "last_midi" -> 3
      [] pc = "bucket_analysis" -> 4
      [] pc = "crash_point" -> 5
      [] pc = "surrounding" -> 6
      [] pc = "stats" -> 7
      [] pc = "returned" -> 8
      [] pc = "raised" -> -1

HasVloop == vloop # <<>>

Field(d, k) == IF k \in DOMAIN d THEN d[k] ELSE 0

DebugIn == IF "debug" \in DOMAIN vloop[1] THEN vloop[1]["debug"] ELSE <<>>

LastMidiIn ==
    IF "lastMidiSent" \in DOMAIN DebugIn THEN DebugIn["lastMidiSent"] ELSE <<>>

BucketsIn == IF "buckets" \in DOMAIN vloop[1] THEN vloop[1]["buckets"] ELSE <<>>

LoopLengthIn == vloop[1]["loopLength"]

CurrentPulseIn == vloop[1]["currentPulse"]

Matching == {i \in 1..Len(BucketsIn) : BucketsIn[i]["pulse"] = CurrentPulseIn}

FirstMatching == CHOOSE i \in Matching : \A j \in Matching : i <= j

\* The decoding rule as documented: type = status AND 0xF0, channel =
\* (status AND 0x0F) + 1, for a status of 0 or more.
RuleType(status) == 16 * ((status \div 16) % 16)

RuleChannel(status) == (status % 16) + 1

RuleText(status, data1, data2) ==
    CASE RuleType(status) = 144 ->
             "Note On ch" \o IntStr(RuleChannel(status)) \o ": note="
                 \o IntStr(data1) \o " vel=" \o IntStr(data2)
      [] RuleType(status) = 128 ->
             "Note Off ch" \o IntStr(RuleChannel(status)) \o ": note="
                 \o IntStr(data1) \o " vel=" \o IntStr(data2)
      [] RuleType(status) = 176 ->
             "CC ch" \o IntStr(RuleChannel(status)) \o ": cc="
                 \o IntStr(data1) \o " val=" \o IntStr(data2)
      [] OTHER ->
             "Status=" \o Hex(status) \o " data1=" \o IntStr(data1)
                 \o " data2=" \o IntStr(data2)

EventLine(k, ev) ==
    "  Event " \o IntStr(k - 1) \o ": "
        \o RuleText(ev["status"], ev["data1"], ev["data2"])
        \o (IF k = 1 THEN " <-- WOULD SEND THIS" ELSE "")

(***************************************************************************)
(* C1: for a snapshot whose slot list holds no slot with guid "VLOP" (the  *)
(* empty list included) the routine never raises and prints nothing until  *)
(* it returns, when the whole report is the one line                       *)
(* "ERROR: VLoop slot not found".                                          *)
(***************************************************************************)
NoVloopInData ==
    /\ "slots" \in DOMAIN data
    /\ \A i \in 1..Len(data["slots"]) :
           ~("guid" \in DOMAIN data["slots"][i]
                 /\ data["slots"][i]["guid"] = "VLOP")

C1_SlotNotFound ==
    NoVloopInData =>
        /\ pc \in {"find", "check", "returned"}
        /\ Texts = IF pc = "returned"
                   THEN <<"ERROR: VLoop slot not found">>
                   ELSE <<>>

C1_Witness ==
    /\ NoVloopInData
    /\ Len(data["slots"]) >= 1
    /\ \E i \in 1..Len(data["slots"]) : "guid" \in DOMAIN data["slots"][i]
    /\ pc = "returned"
    /\ Len(out) = 1

(***************************************************************************)
(* C2: the last-sent message and every event of the crash bucket are       *)
(* rendered by the one documented rule, whatever status, data1 and data2   *)
(* are: the channel is in 1..16, types 0x90, 0x80 and 0xB0 render as Note  *)
(* On, Note Off and CC, and every other type as the fallback with the      *)
(* status in hexadecimal; the four documented examples render as stated.   *)
(***************************************************************************)
C2_LastSent ==
    (HasVloop /\ PcRank > 3) =>
        LET s == Field(LastMidiIn, "status")
            d1 == Field(LastMidiIn, "data1")
            d2 == Field(LastMidiIn, "data2")
            line == Section(SecLastMidi)[3]
        IN  /\ Len(Section(SecLastMidi)) = 3
            /\ line = "  " \o RuleText(s, d1, d2)
            /\ RuleChannel(s) \in 1..16
            /\ (s = 144 /\ d1 = 60 /\ d2 = 100)
                   => line = "  Note On ch1: note=60 vel=100"
            /\ (s = 129 /\ d1 = 40 /\ d2 = 0)
                   => line = "  Note Off ch2: note=40 vel=0"
            /\ (s = 178 /\ d1 = 7 /\ d2 = 127)
                   => line = "  CC ch3: cc=7 val=127"
            /\ (s = 248 /\ d1 = 0 /\ d2 = 0)
                   => line = "  Status=0xf8 data1=0 data2=0"

C2_CrashEvents ==
    (HasVloop /\ PcRank > 5 /\ Matching # {}) =>
        LET events == BucketsIn[FirstMatching]["events"]
            lines == Section(SecCrash)
        IN  /\ Len(lines) = 3 + Len(events)
            /\ \A k \in 1..Len(events) :
                   /\ lines[3 + k] = EventLine(k, events[k])
                   /\ RuleChannel(events[k]["status"]) \in 1..16
                   /\ events[k] = [status |-> 144, data1 |-> 60, data2 |-> 100]
                          => lines[3 + k] = "  Event " \o IntStr(k - 1)
                                 \o ": Note On ch1: note=60 vel=100"
                                 \o (IF k = 1 THEN " <-- WOULD SEND THIS" ELSE "")
                   /\ events[k] = [status |-> 129, data1 |-> 40, data2 |-> 0]
                          => lines[3 + k] = "  Event " \o IntStr(k - 1)
                                 \o ": Note Off ch2: note=40 vel=0"
                                 \o (IF k = 1 THEN " <-- WOULD SEND THIS" ELSE "")
                   /\ events[k] = [status |-> 178, data1 |-> 7, data2 |-> 127]
                          => lines[3 + k] = "  Event " \o IntStr(k - 1)
                                 \o ": CC ch3: cc=7 val=127"
                                 \o (IF k = 1 THEN " <-- WOULD SEND THIS" ELSE "")
                   /\ events[k] = [status |-> 248, data1 |-> 0, data2 |-> 0]
                          => lines[3 + k] = "  Event " \o IntStr(k - 1)
                                 \o ": Status=0xf8 data1=0 data2=0"
                                 \o (IF k = 1 THEN " <-- WOULD SEND THIS" ELSE "")

C2_DecodingRule == C2_LastSent /\ C2_CrashEvents

C2_Witness ==
    /\ HasVloop
    /\ pc = "returned"
    /\ Field(LastMidiIn, "status") = 144
    /\ Section(SecLastMidi)[3] = "  Note On ch1: note=60 vel=100"
    /\ Matching # {}
    /\ Len(BucketsIn[FirstMatching]["events"]) = 2
    /\ Section(SecCrash)[4]
           = "  Event 0: Note Off ch2: note=40 vel=0 <-- WOULD SEND THIS"
    /\ Section(SecCrash)[5] = "  Event 1: CC ch3: cc=7 val=127"

(***************************************************************************)
(* C3: the printed "Total recorded events" is the sum of the lengths of    *)
(* the buckets' event lists and the printed "Max events per bucket" is the *)
(* largest of those lengths, 0 when there is no bucket or no bucket list.  *)
(***************************************************************************)
AllEvents ==
    UNION {{<<i, k>> : k \in 1..Len(BucketsIn[i]["events"])} :
              i \in 1..Len(BucketsIn)}

Lengths == {Len(BucketsIn[i]["events"]) : i \in 1..Len(BucketsIn)}

Largest == IF Lengths = {} THEN 0 ELSE CHOOSE m \in Lengths : \A n \in Lengths : n <= m

C3_BucketTotals ==
    (HasVloop /\ PcRank > 4) =>
        /\ Len(Section(SecBuckets)) = 5
        /\ Section(SecBuckets)[4]
               = "Total recorded events: " \o IntStr(Cardinality(AllEvents))
        /\ Section(SecBuckets)[5]
               = "Max events per bucket: " \o IntStr(Largest)

C3_Witness ==
    /\ HasVloop
    /\ pc = "returned"
    /\ Len(BucketsIn) = 2
    /\ Len(BucketsIn[1]["events"]) = 2
    /\ Len(BucketsIn[2]["events"]) = 1
    /\ Section(SecBuckets)[4] = "Total recorded events: 3"
    /\ Section(SecBuckets)[5] = "Max events per bucket: 2"

(***************************************************************************)
(* C4: the crash-point section takes the first bucket whose pulse equals   *)
(* currentPulse.  If there is one, the section prints its event count and  *)
(* then one line per event in stored order, the event at index 0 and no    *)
(* other carrying " <-- WOULD SEND THIS"; if there is none, it prints that *)
(* the bucket at the crash pulse is empty, and the report goes on.         *)
(***************************************************************************)
C4_CrashPoint ==
    (HasVloop /\ PcRank > 5) =>
        LET head == << "", "=== CRASH POINT (Pulse " \o IntStr(CurrentPulseIn)
                              \o ") ===" >>
        IN  IF Matching # {}
            THEN LET events == BucketsIn[FirstMatching]["events"]
                 IN  Section(SecCrash)
                         = head
                           \o << "Bucket at crash has " \o IntStr(Len(events))
                                     \o " events:" >>
                           \o [k \in 1..Len(events) |->
                                  "  Event " \o IntStr(k - 1) \o ": "
                                      \o DescribeEvent(events[k]["status"],
                                                       events[k]["data1"],
                                                       events[k]["data2"])
                                      \o (IF k - 1 = 0
                                          THEN " <-- WOULD SEND THIS"
                                          ELSE "")]
            ELSE Section(SecCrash)
                     = head \o <<"Bucket at crash pulse is EMPTY (no events)">>

C4_Witness ==
    /\ HasVloop
    /\ pc = "returned"
    /\ Cardinality(Matching) = 2
    /\ Len(BucketsIn[FirstMatching]["events"]) = 2
    /\ \E i \in Matching : Len(BucketsIn[i]["events"]) = 0
    /\ Len(Section(SecCrash)) = 5

(***************************************************************************)
(* C5: the surrounding-buckets section lists exactly the buckets whose     *)
(* pulse p has currentPulse - 3 <= p <= currentPulse + 3, one line each    *)
(* with pulse and event count, in the order of the bucket list, and a line *)
(* is marked " <-- CRASH" exactly when its pulse equals currentPulse.  For *)
(* currentPulse = 50 and pulses 48, 49, 50, 52 it lists those four.        *)
(***************************************************************************)
Near == {i \in 1..Len(BucketsIn) :
            /\ CurrentPulseIn - 3 <= BucketsIn[i]["pulse"]
            /\ BucketsIn[i]["pulse"] <= CurrentPulseIn + 3}

NthNear(n) == CHOOSE i \in Near : Cardinality({j \in Near : j < i}) = n - 1

SurroundLine(b) ==
    "Pulse " \o IntStr(b["pulse"]) \o ": " \o IntStr(Len(b["events"]))
        \o " events"
        \o (IF b["pulse"] = CurrentPulseIn THEN " <-- CRASH" ELSE "")

PulsesIn == [i \in 1..Len(BucketsIn) |-> BucketsIn[i]["pulse"]]

C5_Surrounding ==
    (HasVloop /\ PcRank > 6) =>
        /\ Section(SecSurround)
               = <<"", "=== SURROUNDING BUCKETS ===">>
                     \o [n \in 1..Cardinality(Near) |->
                            SurroundLine(BucketsIn[NthNear(n)])]
        /\ (CurrentPulseIn = 50 /\ PulsesIn = <<48, 49, 50, 52>>)
               => Section(SecSurround)
                      = <<"", "=== SURROUNDING BUCKETS ===",
                          "Pulse 48: " \o IntStr(Len(BucketsIn[1]["events"]))
                              \o " events",
                          "Pulse 49: " \o IntStr(Len(BucketsIn[2]["events"]))
                              \o " events",
                          "Pulse 50: " \o IntStr(Len(BucketsIn[3]["events"]))
                              \o " events <-- CRASH",
                          "Pulse 52: " \o IntStr(Len(BucketsIn[4]["events"]))
                              \o " events">>

C5_Witness ==
    /\ HasVloop
    /\ pc = "returned"
    /\ CurrentPulseIn = 50
    /\ PulsesIn = <<52, 50, 46, 50>>
    /\ Section(SecSurround)
           = <<"", "=== SURROUNDING BUCKETS ===", "Pulse 52: 0 events",
               "Pulse 50: 0 events <-- CRASH", "Pulse 50: 1 events <-- CRASH">>

(***************************************************************************)
(* C6 as stated: when totalClockEdges is 0 or absent, nothing of the       *)
(* performance statistics section is printed, its header included.         *)
(***************************************************************************)
EdgesIn == Field(DebugIn, "totalClockEdges")

StepsIn == Field(DebugIn, "stepCallCount")

C6_SectionOmitted ==
    (HasVloop /\ pc = "returned" /\ EdgesIn = 0) => Section(SecStats) = <<>>

(***************************************************************************)
(* C6 as amended: when totalClockEdges is 0 or absent, the performance     *)
(* statistics section is its header alone (a blank line and                *)
(* "=== PERFORMANCE STATS ==="): neither the average nor the loops-played  *)
(* line is printed.                                                        *)
(***************************************************************************)
C6_HeaderOnly ==
    (HasVloop /\ pc = "returned" /\ EdgesIn = 0) =>
        /\ Section(SecStats) = <<"", "=== PERFORMANCE STATS ===">>
        /\ Texts[Len(Texts)] = "=== PERFORMANCE STATS ==="

C6_Witness ==
    /\ HasVloop
    /\ pc = "returned"
    /\ "totalClockEdges" \notin DOMAIN DebugIn
    /\ StepsIn = 1000
    /\ LoopLengthIn = 16
    /\ Len(Section(SecStats)) = 2

(***************************************************************************)
(* C7: when totalClockEdges > 0 the performance section prints the average *)
(* stepCallCount / totalClockEdges to one decimal place, and prints        *)
(* totalClockEdges / loopLength to two decimal places exactly when         *)
(* loopLength > 0; stepCallCount = 1000, totalClockEdges = 20 and          *)
(* loopLength = 16 give 50.0 and 1.25.  A value printed to d places is a   *)
(* decimal numeral within half a unit of the last place of the quotient.   *)
(***************************************************************************)
Numerals(a, b, d) ==
    LET q == (a * Pow10(d)) \div b
    IN  {UnitsStr(u, d) : u \in {v \in {q, q + 1} :
                                    /\ 2 * (v * b - a * Pow10(d)) <= b
                                    /\ 2 * (a * Pow10(d) - v * b) <= b}}

C7_Ratios ==
    (HasVloop /\ pc = "returned" /\ EdgesIn > 0) =>
        LET lines == Section(SecStats)
        IN  /\ Len(lines) = IF LoopLengthIn > 0 THEN 4 ELSE 3
            /\ lines[1] = ""
            /\ lines[2] = "=== PERFORMANCE STATS ==="
            /\ \E t \in Numerals(StepsIn, EdgesIn, 1) :
                   lines[3] = "Avg step() calls per clock: " \o t
            /\ LoopLengthIn > 0 =>
                   \E t \in Numerals(EdgesIn, LoopLengthIn, 2) :
                       lines[4] = "Loops played before crash: " \o t
            /\ (StepsIn = 1000 /\ EdgesIn = 20 /\ LoopLengthIn = 16) =>
                   /\ lines[3] = "Avg step() calls per clock: 50.0"
                   /\ lines[4] = "Loops played before crash: 1.25"

C7_Witness ==
    /\ HasVloop
    /\ pc = "returned"
    /\ StepsIn = 1000
    /\ EdgesIn = 20
    /\ LoopLengthIn = 16
    /\ Section(SecStats)
           = <<"", "=== PERFORMANCE STATS ===",
               "Avg step() calls per clock: 50.0",
               "Loops played before crash: 1.25">>

(***************************************************************************)
(* C8 as stated: for a valid snapshot (loopLength >= 0, 0 <= currentPulse  *)
(* < loopLength, one bucket per pulse >= 0 that has an event) the printed  *)
(* count of non-empty buckets is the length of the bucket list and never   *)
(* exceeds loopLength.                                                     *)
(***************************************************************************)
SnapshotValid ==
    /\ LoopLengthIn >= 0
    /\ CurrentPulseIn \in 0..(LoopLengthIn - 1)
    /\ \A i \in 1..Len(BucketsIn) :
           /\ Len(BucketsIn[i]["events"]) >= 1
           /\ BucketsIn[i]["pulse"] >= 0
    /\ \A i, j \in 1..Len(BucketsIn) :
           i # j => BucketsIn[i]["pulse"] # BucketsIn[j]["pulse"]

CountLine ==
    "Non-empty buckets: " \o IntStr(Len(BucketsIn)) \o "/"
        \o IntStr(LoopLengthIn)

PulsesValid ==
    /\ \A i \in 1..Len(BucketsIn) :
           BucketsIn[i]["pulse"] \in 0..(LoopLengthIn - 1)
    /\ \A i, j \in 1..Len(BucketsIn) :
           i # j => BucketsIn[i]["pulse"] # BucketsIn[j]["pulse"]

SlotIn ==
    data["slots"][CHOOSE i \in 1..Len(data["slots"]) :
                      /\ "guid" \in DOMAIN data["slots"][i]
                      /\ data["slots"][i]["guid"] = "VLOP"
                      /\ \A j \in 1..(i - 1) :
                             ~("guid" \in DOMAIN data["slots"][j]
                                   /\ data["slots"][j]["guid"] = "VLOP")]

Complete(v) ==
    /\ {"loopLength", "currentPulse", "isRecording", "isPlaying"} \subseteq DOMAIN v
    /\ "buckets" \in DOMAIN v =>
           \A i \in 1..Len(v["buckets"]) :
               /\ {"pulse", "events"} \subseteq DOMAIN v["buckets"][i]
               /\ \A k \in 1..Len(v["buckets"][i]["events"]) :
                      {"status", "data1", "data2"}
                          \subseteq DOMAIN v["buckets"][i]["events"][k]

C9_Defaults ==
    ("slots" \in DOMAIN data /\ ~NoVloopInData /\ Complete(SlotIn)) =>
        /\ pc # "raised"
        /\ PcRank > 2 =>
               Section(SecCounters)
                   = <<"", "=== DEBUG COUNTERS ===",
                       "Total step() calls:     "
                           \o Grouped(Field(DebugIn, "stepCallCount")),
                       "Total clock edges:      "
                           \o Grouped(Field(DebugIn, "totalClockEdges")),
                       "Total MIDI received:    "
                           \o Grouped(Field(DebugIn, "totalMidiReceived")),
                       "Total MIDI sent:        "
                           \o Grouped(Field(DebugIn, "totalMidiSent"))>>
        /\ PcRank > 3 =>
               Section(SecLastMidi)
                   = <<"",
                       "Last MIDI sent at pulse "
                           \o IntStr(Field(DebugIn, "lastPulseWithMidi")) \o ":",
                       "  " \o RuleText(Field(LastMidiIn, "status"),
                                        Field(LastMidiIn, "data1"),
                                        Field(LastMidiIn, "data2"))>>
        /\ (PcRank > 3 /\ "lastMidiSent" \notin DOMAIN DebugIn) =>
               Section(SecLastMidi)[3] = "  Status=0x0 data1=0 data2=0"
        /\ (PcRank > 4 /\ "buckets" \notin DOMAIN vloop[1]) =>
               Section(SecBuckets)
                   = <<"", "=== BUCKET ANALYSIS ===",
                       "Non-empty buckets: 0/" \o IntStr(LoopLengthIn),
                       "Total recorded events: 0",
                       "Max events per bucket: 0">>
        /\ (PcRank > 5 /\ "buckets" \notin DOMAIN vloop[1]) =>
               Section(SecCrash)[3] = "Bucket at crash pulse is EMPTY (no events)"
        /\ (PcRank > 6 /\ "buckets" \notin DOMAIN vloop[1]) =>
               Section(SecSurround) = <<"", "=== SURROUNDING BUCKETS ===">>

C9_Witness ==
    /\ HasVloop
    /\ pc = "returned"
    /\ "debug" \notin DOMAIN vloop[1]
    /\ "buckets" \notin DOMAIN vloop[1]
    /\ Section(SecCounters)[3] = "Total step() calls:     0"
    /\ Section(SecLastMidi)
           = <<"", "Last MIDI sent at pulse 0:", "  Status=0x0 data1=0 data2=0">>

(***************************************************************************)
(* C10: when a VLOP slot is found, the report's sections come in one fixed *)
(* order, each at most once and never interleaved: playback state, debug   *)
(* counters, last-sent MIDI message, bucket statistics, crash point,       *)
(* surrounding buckets, performance statistics.  No line of a later        *)
(* section precedes a line of an earlier one, and on return every          *)
(* section's header is in the report once, in that order.                  *)
(***************************************************************************)
HeaderText(k) ==
    CASE k = 1 -> "=== PLAYBACK STATE ==="
      [] k = 2 -> "=== DEBUG COUNTERS ==="
      [] k = 3 -> "Last MIDI sent at pulse "
                      \o IntStr(Field(DebugIn, "lastPulseWithMidi")) \o ":"
      [] k = 4 -> "=== BUCKET ANALYSIS ==="
      [] k = 5 -> "=== CRASH POINT (Pulse " \o IntStr(CurrentPulseIn) \o ") ==="
      [] k = 6 -> "=== SURROUNDING BUCKETS ==="
      [] k = 7 -> "=== PERFORMANCE STATS ==="

Places(k) == {i \in 1..Len(out) : out[i].text = HeaderText(k)}

C10_SectionOrder ==
    /\ \A i, j \in 1..Len(out) : i < j => out[i].sec <= out[j].sec
    /\ (HasVloop /\ Complete(vloop[1])) =>
           /\ \A k \in 1..7 : Cardinality(Places(k)) <= 1
           /\ \A k, l \in 1..7 :
                  (k < l /\ Places(l) # {}) =>
                      /\ Places(k) # {}
                      /\ \A i \in Places(k), j \in Places(l) : i < j
           /\ pc = "returned" => \A k \in 1..7 : Places(k) # {}

C10_Witness ==
    /\ HasVloop
    /\ pc = "returned"
    /\ \A k \in 0..7 : Len(Section(k)) >= 3
    /\ Len(BucketsIn) = 4

====
